---- MODULE Spec2Model ----
(***************************************************************************)
(* Model of sentry_tunnel's envelope validator and forwarder               *)
(* (src/src/envelope.rs) together with the request handler that drives it. *)
(*                                                                         *)
(* A request body is a sequence of lexemes.  Each lexeme stands for a run   *)
(* of bytes of the body: the newline byte, a byte that is not valid UTF-8,  *)
(* a JSON punctuation character, a JSON string literal, a JSON number, the  *)
(* JSON null, or a run of text that is no JSON at all.  Two bodies are      *)
(* byte-identical exactly when their lexeme sequences are equal.            *)
(***************************************************************************)
EXTENDS Naturals, Sequences, FiniteSets, TLC

VARIABLES
    reqs,    \* the requests of this run (set when the server starts)
    config,  \* the allow-lists: remote_hosts and project_ids
    pc,      \* pc[r]: "Idle", "Forwarding" (awaiting send_async) or "Done"
    body,    \* body[r]: the inbound request body
    env,     \* env[r]: the SentryEnvelope built from the body
    err,     \* err[r]: the error kind the request failed with, "" for none
    resp,    \* resp[r]: the response given to the caller
    sent,    \* sent[r]: the outbound requests handed to the transport
    upstream \* upstream[r]: what the transport delivered for the send

vars == <<reqs, config, pc, body, env, err, resp, sent, upstream>>

(***************************************************************************)
(* Bounds of the model.                                                    *)
(***************************************************************************)
\* the number of header fields besides dsn
MaxOtherMembers == 1
\* the number of lexemes after the first newline
MaxTail == 2

(***************************************************************************)
(* Lexemes.                                                                *)
(***************************************************************************)
Tok(k, v) == [k |-> k, v |-> v]

NL     == Tok("nl", <<>>)
BAD    == Tok("bad", <<>>)
LBRACE == Tok("lbrace", <<>>)
RBRACE == Tok("rbrace", <<>>)
COLON  == Tok("colon", <<>>)
COMMA  == Tok("comma", <<>>)
NUM    == Tok("num", <<"1">>)
NULL   == Tok("null", <<>>)
RAW    == Tok("raw", <<"binary_data_placeholder">>)
Str(v) == Tok("str", v)

(***************************************************************************)
(* The destination descriptor (sentry_types::Dsn).  A dsn string is the    *)
(* sequence of its parts: scheme, "://", public key, "@", host,            *)
(* optionally ":" and a port, "/", project id.                             *)
(***************************************************************************)
DsnPunct == {"://", "@", ":", "/"}
Schemes  == {"http", "https"}

NoDsn == [scheme |-> "", public_key |-> "", host |-> "", port |-> "", project_id |-> ""]

IsPart(p) == p \notin DsnPunct /\ p # ""

DsnGrammarMatches(s) ==
    \/ /\ Len(s) = 7
       /\ s[1] \in Schemes /\ s[2] = "://" /\ IsPart(s[3]) /\ s[4] = "@"
       /\ IsPart(s[5]) /\ s[6] = "/" /\ IsPart(s[7])
    \/ /\ Len(s) = 9
       /\ s[1] \in Schemes /\ s[2] = "://" /\ IsPart(s[3]) /\ s[4] = "@"
       /\ IsPart(s[5]) /\ s[6] = ":" /\ IsPart(s[7]) /\ s[8] = "/" /\ IsPart(s[9])

\* Dsn::from_str: [ok |-> FALSE] with no descriptor, or the parsed descriptor
DsnFromStr(s) ==
    IF ~DsnGrammarMatches(s)
    THEN [ok |-> FALSE, dsn |-> NoDsn]
    ELSE [ok |-> TRUE,
          dsn |-> [scheme     |-> s[1],
                   public_key |-> s[3],
                   host       |-> s[5],
                   port       |-> IF Len(s) = 9 THEN s[7] ELSE "",
                   project_id |-> s[Len(s)]]]

\* Dsn::envelope_api_url: scheme, host, port and the ingestion path
envelope_api_url(dsn) ==
    dsn.scheme \o "://" \o dsn.host
        \o (IF dsn.port # "" THEN ":" \o dsn.port ELSE "")
        \o "/api/" \o dsn.project_id \o "/envelope/"

(***************************************************************************)
(* The header line as JSON (serde_json::from_str into a Value): a scalar,  *)
(* or an object of string keys and scalar values.                          *)
(***************************************************************************)
IsScalar(t) == t.k \in {"str", "num", "null"}

RECURSIVE MembersOk(_)
MembersOk(toks) ==
    /\ Len(toks) >= 3
    /\ toks[1].k = "str"
    /\ toks[2] = COLON
    /\ IsScalar(toks[3])
    /\ \/ Len(toks) = 3
       \/ /\ Len(toks) > 4
          /\ toks[4] = COMMA
          /\ MembersOk(SubSeq(toks, 5, Len(toks)))

JsonValid(toks) ==
    \/ Len(toks) = 1 /\ IsScalar(toks[1])
    \/ /\ Len(toks) >= 2
       /\ toks[1] = LBRACE
       /\ toks[Len(toks)] = RBRACE
       /\ \/ Len(toks) = 2
          \/ MembersOk(SubSeq(toks, 2, Len(toks) - 1))

JsonIsObject(toks) == JsonValid(toks) /\ toks[1] = LBRACE

\* the positions of the keys of a valid object: 2, 6, 10, ...
KeyPositions(toks) == {i \in 2 .. Len(toks) - 1 : i % 4 = 2}

\* Value::get(key): the positions at which the object holds the key
JsonKeyAt(toks, key) ==
    IF JsonIsObject(toks)
    THEN {i \in KeyPositions(toks) : toks[i].v = <<key>>}
    ELSE {}

JsonHas(toks, key) == JsonKeyAt(toks, key) # {}

\* the value of the key; the last entry wins when a key repeats
JsonGet(toks, key) ==
    LET last == CHOOSE i \in JsonKeyAt(toks, key) :
                    \A j \in JsonKeyAt(toks, key) : j <= i
    IN  toks[last + 2]

(***************************************************************************)
(* BodyError and its Display text (envelope.rs 32-58).                     *)
(***************************************************************************)
BodyErrorKinds ==
    {"InvalidNumberOfLines", "InvalidHeaderJson", "MissingDsnKeyInHeader",
     "InvalidDsnValue", "InvalidProjectId", "EmptyBody"}

\* the io error try_new_from_body wraps when the header is not UTF-8
InvalidUtf8Detail == "Header contains invalid UTF-8"
\* the message of serde_json's error for a header that is not JSON
JsonSyntaxDetail == "expected value"

\* a slip in the texts: InvalidProjectId prints the text of InvalidDsnValue
fmt_same_text(kind, detail) ==
    CASE kind = "InvalidNumberOfLines" ->
            "Invalid number of lines in request body. Must have at least 2 lines (header and at least one item)."
      [] kind = "MissingDsnKeyInHeader" -> "The dsn key is missing from the header"
      [] kind = "InvalidHeaderJson" -> "Failed to parse header json : " \o detail
      [] kind = "InvalidProjectId" -> "Failed to parse dsn value"
      [] kind = "InvalidDsnValue" -> "Failed to parse dsn value"
      [] kind = "EmptyBody" -> "Empty request body"

\* a slip in the texts: MissingDsnKeyInHeader prints the InvalidDsnValue text
fmt_missing_as_value(kind, detail) ==
    CASE kind = "InvalidNumberOfLines" ->
            "Invalid number of lines in request body. Must have at least 2 lines (header and at least one item)."
      [] kind = "MissingDsnKeyInHeader" -> "Failed to parse dsn value"
      [] kind = "InvalidHeaderJson" -> "Failed to parse header json : " \o detail
      [] kind = "InvalidProjectId" -> "Unauthorized project ID"
      [] kind = "InvalidDsnValue" -> "Failed to parse dsn value"
      [] kind = "EmptyBody" -> "Empty request body"

\* impl Display for BodyError
fmt(kind, detail) ==
    CASE kind = "InvalidNumberOfLines" ->
            "Invalid number of lines in request body. Must have at least 2 lines (header and at least one item)."
      [] kind = "MissingDsnKeyInHeader" -> "The dsn key is missing from the header"
      [] kind = "InvalidHeaderJson" -> "Failed to parse header json : " \o detail
      [] kind = "InvalidProjectId" -> "Unauthorized project ID"
      [] kind = "InvalidDsnValue" -> "Failed to parse dsn value"
      [] kind = "EmptyBody" -> "Empty request body"

BAD_REQUEST == 400
OK == 200
INTERNAL_SERVER_ERROR == 500

NoResp == [status |-> 0, body |-> ""]

\* impl IntoResponse for BodyError
into_response(kind, detail) == [status |-> BAD_REQUEST, body |-> fmt(kind, detail)]

(***************************************************************************)
(* SentryEnvelope (envelope.rs 23-26, 70-141).                             *)
(***************************************************************************)
NoEnv == [raw_body |-> <<>>, dsn |-> NoDsn]

\* a host gate that lets every host through
dsn_host_is_valid_any(e, host) == TRUE

\* a host gate that compares the descriptor's host with its port attached
dsn_host_is_valid_with_port(e, host) ==
    LET envelope_host ==
            IF e.dsn.port # "" THEN e.dsn.host \o ":" \o e.dsn.port ELSE e.dsn.host
    IN  \E i \in 1 .. Len(host) : host[i] = envelope_host

\* SentryEnvelope::dsn_host_is_valid: host is the slice of configured Hosts
dsn_host_is_valid(e, host) ==
    LET envelope_host == e.dsn.host
    IN  \E i \in 1 .. Len(host) : host[i] = envelope_host

\* body.iter().position(|&b| b == b'\n'): 0 stands for None
FirstNewline(b) ==
    IF \E i \in 1 .. Len(b) : b[i] = NL
    THEN CHOOSE i \in 1 .. Len(b) : b[i] = NL /\ \A j \in 1 .. i - 1 : b[j] # NL
    ELSE 0

\* std::str::from_utf8 on the header bytes
IsUtf8(bytes) == \A i \in 1 .. Len(bytes) : bytes[i] # BAD

Failed(kind, detail) ==
    [err |-> kind, detail |-> detail, envelope |-> NoEnv]

\* the dsn branch with its two error arms exchanged
header_dsn_swapped(b, header) ==
    IF JsonHas(header, "dsn")
    THEN LET dsn == JsonGet(header, "dsn")
         IN  IF dsn.k = "str"
             THEN LET parsed == DsnFromStr(dsn.v)
                  IN  IF parsed.ok
                      THEN [err |-> "", detail |-> "",
                            envelope |-> [raw_body |-> b, dsn |-> parsed.dsn]]
                      ELSE Failed("ParseDsnError", "")
             ELSE Failed("MissingDsnKeyInHeader", "")
    ELSE Failed("InvalidDsnValue", "")

\* the dsn branch keeping the header line alone as the raw body
header_dsn_header_only(b, header) ==
    IF JsonHas(header, "dsn")
    THEN LET dsn == JsonGet(header, "dsn")
         IN  IF dsn.k = "str"
             THEN LET parsed == DsnFromStr(dsn.v)
                  IN  IF parsed.ok
                      THEN [err |-> "", detail |-> "",
                            envelope |-> [raw_body |-> Append(header, NL),
                                          dsn |-> parsed.dsn]]
                      ELSE Failed("ParseDsnError", "")
             ELSE Failed("InvalidDsnValue", "")
    ELSE Failed("MissingDsnKeyInHeader", "")

\* try_new_from_body, lines 128-140: the dsn field of the parsed header.
\* `Dsn::from_str(dsn_str)?` hands the descriptor parser's own error on.
header_dsn(b, header) ==
    IF JsonHas(header, "dsn")
    THEN LET dsn == JsonGet(header, "dsn")
         IN  IF dsn.k = "str"
             THEN LET parsed == DsnFromStr(dsn.v)
                  IN  IF parsed.ok
                      THEN [err |-> "", detail |-> "",
                            envelope |-> [raw_body |-> b, dsn |-> parsed.dsn]]
                      ELSE Failed("ParseDsnError", "")
             ELSE Failed("InvalidDsnValue", "")
    ELSE Failed("MissingDsnKeyInHeader", "")

\* the header parsed before the newline is looked for
try_new_from_body_json_first(b) ==
    IF b = <<>>
    THEN Failed("EmptyBody", "")
    ELSE LET header_end == FirstNewline(b)
             header_bytes == IF header_end = 0 THEN b ELSE SubSeq(b, 1, header_end - 1)
         IN  IF ~IsUtf8(header_bytes)
             THEN Failed("InvalidHeaderJson", InvalidUtf8Detail)
             ELSE IF ~JsonValid(header_bytes)
             THEN Failed("InvalidHeaderJson", JsonSyntaxDetail)
             ELSE IF header_end = 0
             THEN Failed("InvalidNumberOfLines", "")
             ELSE header_dsn(b, header_bytes)

\* SentryEnvelope::try_new_from_body
try_new_from_body(b) ==
    IF b = <<>>
    THEN Failed("EmptyBody", "")
    ELSE LET header_end == FirstNewline(b)
         IN  IF header_end = 0
             THEN Failed("InvalidNumberOfLines", "")
             ELSE LET header_bytes == SubSeq(b, 1, header_end - 1)
                  IN  IF ~IsUtf8(header_bytes)
                      THEN Failed("InvalidHeaderJson", InvalidUtf8Detail)
                      ELSE IF ~JsonValid(header_bytes)
                      THEN Failed("InvalidHeaderJson", JsonSyntaxDetail)
                      ELSE header_dsn(b, header_bytes)

\* the uri without the sentry_key parameter
forward_uri_no_key(e) == envelope_api_url(e.dsn)

\* forward, line 84
forward_uri(e) == envelope_api_url(e.dsn) \o "?sentry_key=" \o e.dsn.public_key

\* forward, lines 85-89: the request handed to the transport
forward_request(e) ==
    [method       |-> "POST",
     uri          |-> forward_uri(e),
     content_type |-> "application/x-sentry-envelope",
     body         |-> e.raw_body]

\* a forward that sends its request a second time
forward_begin_twice(e, built) ==
    IF built
    THEN [issued |-> <<forward_request(e), forward_request(e)>>, result |-> "Pending"]
    ELSE [issued |-> <<>>, result |-> "Err"]

\* forward, lines 85-96: `.body(..)?` returns the builder's error before
\* anything is sent; otherwise send_async is called once and awaited
forward_begin(e, built) ==
    IF built
    THEN [issued |-> <<forward_request(e)>>, result |-> "Pending"]
    ELSE [issued |-> <<>>, result |-> "Err"]

\* what the transport can deliver for a send: a response, or its own error
Statuses == {200, 400, 500}
Deliveries ==
    {[kind |-> "response", status |-> s] : s \in Statuses}
        \cup {[kind |-> "error", status |-> 0]}
NoDelivery == [kind |-> "", status |-> 0]

\* a forward that takes a response other than 200 for a failure
forward_complete_strict(d) ==
    IF d.kind = "response" /\ d.status = 200 THEN "Ok" ELSE "Err"

\* forward, lines 96-99: Ok(_) => Ok(()), Err(e) => Err(e.into())
forward_complete(d) ==
    IF d.kind = "response" THEN "Ok" ELSE "Err"

(***************************************************************************)
(* The request handler: parser, project-id gate, host gate, forwarder.     *)
(***************************************************************************)
\* the text of HeaderError::InvalidHost
InvalidHostText == "Invalid host"
\* the text of the descriptor parser's error, handed on by try_new_from_body
ParseDsnErrorText == "invalid dsn"
\* the text derived from the transport's error
ForwardErrorText == "forward failed"

\* the project-id gate: descriptor.project_id is a member of the allow-list
project_id_is_allowed(e, project_ids) ==
    \E i \in 1 .. Len(project_ids) : project_ids[i] = e.dsn.project_id

\* the response for each failure: 400 with the error's text for a parse or
\* gate failure, a server error for a failed forward
error_response(kind, detail) ==
    IF kind \in BodyErrorKinds
    THEN into_response(kind, detail)
    ELSE IF kind = "InvalidHost"
    THEN [status |-> BAD_REQUEST, body |-> InvalidHostText]
    ELSE IF kind = "ParseDsnError"
    THEN [status |-> BAD_REQUEST, body |-> ParseDsnErrorText]
    ELSE [status |-> INTERNAL_SERVER_ERROR, body |-> ForwardErrorText]

Rejected(kind, detail, e) ==
    [pc |-> "Done", env |-> e, err |-> kind,
     resp |-> error_response(kind, detail), sent |-> <<>>]

\* one request, from its body to the await on the outbound send
handle(b, cfg, built) ==
    LET parsed == try_new_from_body(b)
        e == parsed.envelope
        f == forward_begin(e, built)
    IN  IF parsed.err # ""
        THEN Rejected(parsed.err, parsed.detail, NoEnv)
        ELSE IF ~project_id_is_allowed(e, cfg.project_ids)
        THEN Rejected("InvalidProjectId", "", e)
        ELSE IF ~dsn_host_is_valid(e, cfg.remote_hosts)
        THEN Rejected("InvalidHost", "", e)
        ELSE IF f.result = "Err"
        THEN [pc |-> "Done", env |-> e, err |-> "ForwardError",
              resp |-> error_response("ForwardError", ""), sent |-> f.issued]
        ELSE [pc |-> "Forwarding", env |-> e, err |-> "",
              resp |-> NoResp, sent |-> f.issued]

(***************************************************************************)
(* The inputs: request bodies and allow-lists.                             *)
(***************************************************************************)
Hosts      == {"hostA", "hostB"}
Ports      == {"", "8080"}
ProjectIds == {"5", "6"}
PublicKeys == {"public"}

MkDsn(scheme, key, host, port, id) ==
    <<scheme, "://", key, "@", host>>
        \o (IF port # "" THEN <<":", port>> ELSE <<>>)
        \o <<"/", id>>

WellFormedDsnStrings ==
    {MkDsn(s, k, h, p, id) :
        s \in Schemes, k \in PublicKeys, h \in Hosts, p \in Ports, id \in ProjectIds}

MalformedDsnStrings ==
    {<<>>,
     <<"garbage">>,
     <<"http", "://", "hostA", "/", "5">>,
     <<"http", "://", "public", "@", "hostA">>,
     <<"ftp", "://", "public", "@", "hostA", "/", "5">>}

\* what the header can hold under the key dsn
DsnValues ==
    {Str(d) : d \in WellFormedDsnStrings \cup MalformedDsnStrings} \cup {NUM, NULL}

DsnMember(v) == <<Str(<<"dsn">>), COLON, v>>
OtherMember  == <<Str(<<"sdk">>), COLON, Str(<<"sentry.javascript.browser">>)>>

RECURSIVE Others(_)
\* n other members, each followed by a comma
Others(n) == IF n = 0 THEN <<>> ELSE OtherMember \o <<COMMA>> \o Others(n - 1)

RECURSIVE OthersAfter(_)
\* n other members, each preceded by a comma
OthersAfter(n) == IF n = 0 THEN <<>> ELSE <<COMMA>> \o OtherMember \o OthersAfter(n - 1)

\* header objects holding a dsn field, before, between or after other fields
HeadersWithDsn ==
    {<<LBRACE>> \o Others(i) \o DsnMember(v) \o OthersAfter(j) \o <<RBRACE>> :
        <<i, j, v>> \in {t \in (0 .. MaxOtherMembers) \X (0 .. MaxOtherMembers) \X DsnValues :
                            t[1] + t[2] <= MaxOtherMembers}}

\* header objects without a dsn field, and JSON values that are no object
HeadersWithoutDsn ==
    {<<LBRACE, RBRACE>>, <<NUM>>, <<Str(<<"dsn">>)>>}
        \cup {<<LBRACE>> \o OtherMember \o OthersAfter(n) \o <<RBRACE>> :
                n \in 0 .. MaxOtherMembers}

AllowedDsn == Str(MkDsn("http", "public", "hostA", "", "5"))

\* header lines that are not JSON, or not UTF-8
BrokenHeaders ==
    {<<>>,
     <<LBRACE>>,
     <<RAW>>,
     <<LBRACE>> \o DsnMember(AllowedDsn),
     <<LBRACE>> \o DsnMember(AllowedDsn) \o <<COMMA, RBRACE>>,
     <<BAD, LBRACE>> \o DsnMember(AllowedDsn) \o <<RBRACE>>,
     <<LBRACE, BAD, RBRACE>>}

Headers == HeadersWithDsn \cup HeadersWithoutDsn \cup BrokenHeaders

TailAlphabet == {NL, RAW, BAD}

RECURSIVE SeqsUpTo(_, _)
SeqsUpTo(S, n) ==
    IF n = 0
    THEN {<<>>}
    ELSE LET shorter == SeqsUpTo(S, n - 1)
         IN  shorter \cup {Append(t, x) : t \in shorter, x \in S}

Tails == SeqsUpTo(TailAlphabet, MaxTail)

\* the header alone, or the header, a newline and what follows it
Bodies == Headers \cup {h \o <<NL>> \o t : h \in Headers, t \in Tails}

Configs ==
    [remote_hosts : {<<>>, <<"hostA">>, <<"hostA", "hostB">>},
     project_ids  : {<<>>, <<"5">>, <<"6", "5">>}]

(***************************************************************************)
(* The state machine.                                                      *)
(***************************************************************************)
InitWith(R) ==
    /\ reqs = R
    /\ config \in Configs
    /\ pc = [r \in R |-> "Idle"]
    /\ body = [r \in R |-> <<>>]
    /\ env = [r \in R |-> NoEnv]
    /\ err = [r \in R |-> ""]
    /\ resp = [r \in R |-> NoResp]
    /\ sent = [r \in R |-> <<>>]
    /\ upstream = [r \in R |-> NoDelivery]

Init == InitWith({1})

\* a request arrives and is handled up to its response, or up to the await
\* on the outbound send
HandleWith(r, B) ==
    /\ pc[r] = "Idle"
    /\ \E b \in B, built \in BOOLEAN :
          LET h == handle(b, config, built)
          IN  /\ body' = [body EXCEPT ![r] = b]
              /\ pc' = [pc EXCEPT ![r] = h.pc]
              /\ env' = [env EXCEPT ![r] = h.env]
              /\ err' = [err EXCEPT ![r] = h.err]
              /\ resp' = [resp EXCEPT ![r] = h.resp]
              /\ sent' = [sent EXCEPT ![r] = h.sent]
    /\ UNCHANGED <<reqs, config, upstream>>

HandleRequest(r) == HandleWith(r, Bodies)

\* the transport completes the send; forward returns and the caller is answered
Deliver(r) ==
    /\ pc[r] = "Forwarding"
    /\ \E d \in Deliveries :
          /\ upstream' = [upstream EXCEPT ![r] = d]
          /\ IF forward_complete(d) = "Ok"
             THEN /\ resp' = [resp EXCEPT ![r] = [status |-> OK, body |-> ""]]
                  /\ err' = err
             ELSE /\ resp' = [resp EXCEPT ![r] = error_response("ForwardError", "")]
                  /\ err' = [err EXCEPT ![r] = "ForwardError"]
    /\ pc' = [pc EXCEPT ![r] = "Done"]
    /\ UNCHANGED <<reqs, config, body, env, sent>>

Next == \E r \in reqs : HandleRequest(r) \/ Deliver(r)

Spec == Init /\ [][Next]_vars

(***************************************************************************)
(* Two requests in flight at once.  Each request is handled by a task of   *)
(* its own; the destination of request 1 may stall for ever, so nothing    *)
(* obliges the transport to complete its send.                             *)
(***************************************************************************)
ConcRequests == {1, 2}
StalledRequest == 1
LiveRequest == 2

ConcHeader == <<LBRACE>> \o DsnMember(AllowedDsn) \o <<RBRACE>>

\* bodies of each outcome: forwarded, and rejected by the parser or a gate
ConcBodies ==
    {ConcHeader \o <<NL, RAW>>,
     <<LBRACE>> \o DsnMember(Str(MkDsn("https", "public", "hostB", "8080", "6")))
         \o <<RBRACE, NL, BAD>>,
     <<LBRACE, RBRACE, NL, RAW>>,
     ConcHeader,
     <<>>}

\* a forward that blocks its thread on the send (send() in place of
\* send_async().await) on a single-threaded executor: no other request is
\* handled while a send is outstanding
forward_awaits_blocking(r) == \A q \in reqs \ {r} : pc[q] # "Forwarding"

\* forward is an async fn and awaits send_async: while its send is
\* outstanding the task is suspended and the executor runs the other tasks,
\* so the handling of r never waits for another request's send
forward_awaits(r) == TRUE

InitConc == InitWith(ConcRequests)

ConcHandle(r) == forward_awaits(r) /\ HandleWith(r, ConcBodies)

ConcDeliver(r) == forward_awaits(r) /\ Deliver(r)

NextConc == \E r \in reqs : ConcHandle(r) \/ ConcDeliver(r)

\* every task is scheduled fairly; the transport completes the sends of the
\* live request, and owes nothing to the stalled one
SpecConc ==
    /\ InitConc
    /\ [][NextConc]_vars
    /\ \A r \in ConcRequests : WF_vars(ConcHandle(r))
    /\ WF_vars(ConcDeliver(LiveRequest))

TypeOK ==
    /\ \A r \in reqs : pc[r] \in {"Idle", "Forwarding", "Done"}
    /\ \A r \in reqs : Len(sent[r]) <= 2

(***************************************************************************)
(* Vocabulary of the properties.                                           *)
(***************************************************************************)
Handled(r) == pc[r] # "Idle"

HasNewline(b) == \E i \in 1 .. Len(b) : b[i] = NL

\* the bytes before the first newline
HeaderLine(b) == SubSeq(b, 1, FirstNewline(b) - 1)

\* the body has a newline-terminated header line that is UTF-8 and JSON
HeaderParses(b) ==
    /\ HasNewline(b)
    /\ IsUtf8(HeaderLine(b))
    /\ JsonValid(HeaderLine(b))

\* the header holds a string under dsn: its parts
DsnParts(b) == JsonGet(HeaderLine(b), "dsn").v

HasDsnString(b) ==
    /\ HeaderParses(b)
    /\ JsonHas(HeaderLine(b), "dsn")
    /\ JsonGet(HeaderLine(b), "dsn").k = "str"

\* try_new_from_body accepts the body
Accepted(b) == HasDsnString(b) /\ DsnGrammarMatches(DsnParts(b))

\* the descriptor's project id and host, read off the dsn string
ProjectIdOf(b) == DsnParts(b)[Len(DsnParts(b))]
HostOf(b) == DsnParts(b)[5]

InList(x, list) == \E i \in 1 .. Len(list) : list[i] = x

PassesGates(b) ==
    /\ Accepted(b)
    /\ InList(ProjectIdOf(b), config.project_ids)
    /\ InList(HostOf(b), config.remote_hosts)

(***************************************************************************)
(* Properties.                                                             *)
(***************************************************************************)

\* C1: for every body that try_new_from_body accepts and whose descriptor
\* passes both gates, the envelope's raw_body and the body of every outbound
\* POST equal the inbound body, lexeme for lexeme, the bytes after the first
\* newline and trailing non-JSON data included.
C1_RoundTrip ==
    \A r \in reqs :
        (Handled(r) /\ PassesGates(body[r])) =>
            /\ env[r].raw_body = body[r]
            /\ \A i \in 1 .. Len(sent[r]) :
                  /\ sent[r][i].body = body[r]
                  /\ Len(sent[r][i].body) = Len(body[r])

C1_Witness ==
    \E r \in reqs :
        /\ PassesGates(body[r])
        /\ Len(sent[r]) = 1
        /\ Len(body[r]) = FirstNewline(body[r]) + 2
        /\ body[r][Len(body[r])] = BAD

\* C2 as stated: exactly one outbound POST when parsing and both gates
\* succeed, exactly zero when the request is rejected before.
C2_ExactlyOnePost ==
    \A r \in reqs :
        Handled(r) =>
            Len(sent[r]) = (IF PassesGates(body[r]) THEN 1 ELSE 0)

\* C2, amended: a request rejected by the parser or a gate issues no outbound
\* POST; a request that passes them issues at most one, and exactly one unless
\* building the outbound request failed (forward then returns its error
\* before sending); a forward is never retried, whatever its outcome.
C2_AtMostOnePost ==
    \A r \in reqs :
        Handled(r) =>
            /\ Len(sent[r]) <= 1
            /\ ~PassesGates(body[r]) => Len(sent[r]) = 0
            /\ (PassesGates(body[r]) /\ Len(sent[r]) = 0) =>
                  /\ pc[r] = "Done"
                  /\ err[r] = "ForwardError"
                  /\ upstream[r] = NoDelivery
            /\ (pc[r] = "Forwarding" \/ upstream[r] # NoDelivery) => Len(sent[r]) = 1

C2_Witness ==
    \E r \in reqs :
        /\ pc[r] = "Done"
        /\ upstream[r].kind = "error"
        /\ Len(sent[r]) = 1

\* C3: an envelope that parses and whose project id is not allowed is
\* rejected with InvalidProjectId, status 400 and body "Unauthorized project
\* ID", also when its host is not allowed either; nothing is forwarded.
C3_ProjectIdFirst ==
    \A r \in reqs :
        (/\ Handled(r)
         /\ Accepted(body[r])
         /\ ~InList(ProjectIdOf(body[r]), config.project_ids)) =>
            /\ pc[r] = "Done"
            /\ err[r] = "InvalidProjectId"
            /\ resp[r] = [status |-> 400, body |-> "Unauthorized project ID"]
            /\ sent[r] = <<>>

C3_Witness ==
    \E r \in reqs :
        /\ Handled(r)
        /\ Accepted(body[r])
        /\ ~InList(ProjectIdOf(body[r]), config.project_ids)
        /\ ~InList(HostOf(body[r]), config.remote_hosts)
        /\ err[r] = "InvalidProjectId"

\* C4 as stated: a host outside the allow-list is rejected with InvalidHost
\* for every project id, allowed or not.
C4_InvalidHostAlways ==
    \A r \in reqs :
        (/\ Handled(r)
         /\ Accepted(body[r])
         /\ ~InList(HostOf(body[r]), config.remote_hosts)) =>
            /\ err[r] = "InvalidHost"
            /\ resp[r] = [status |-> 400, body |-> InvalidHostText]

\* C4, amended: an envelope that parses, whose project id is allowed and
\* whose host is not in the allow-list is rejected with InvalidHost, status
\* 400 and the InvalidHost text; nothing is forwarded.
C4_InvalidHost ==
    \A r \in reqs :
        (/\ Handled(r)
         /\ Accepted(body[r])
         /\ InList(ProjectIdOf(body[r]), config.project_ids)
         /\ ~InList(HostOf(body[r]), config.remote_hosts)) =>
            /\ pc[r] = "Done"
            /\ err[r] = "InvalidHost"
            /\ resp[r] = [status |-> 400, body |-> InvalidHostText]
            /\ sent[r] = <<>>

C4_Witness ==
    \E r \in reqs :
        /\ Handled(r)
        /\ Accepted(body[r])
        /\ InList(ProjectIdOf(body[r]), config.project_ids)
        /\ HostOf(body[r]) = "hostB"
        /\ config.remote_hosts = <<"hostA">>
        /\ err[r] = "InvalidHost"

\* C5 as stated: a dsn field that is no string, or a string that does not
\* match the descriptor grammar, fails with InvalidDsnValue and the caller
\* gets 400 with body "Failed to parse dsn value".
C5_InvalidDsnValue ==
    \A r \in reqs :
        (/\ Handled(r)
         /\ HeaderParses(body[r])
         /\ JsonHas(HeaderLine(body[r]), "dsn")
         /\ ~Accepted(body[r])) =>
            /\ err[r] = "InvalidDsnValue"
            /\ resp[r] = [status |-> 400, body |-> "Failed to parse dsn value"]

\* C6: try_new_from_body reports the first failing check, in the order
\* EmptyBody, InvalidNumberOfLines, InvalidHeaderJson (not UTF-8 or not
\* JSON), MissingDsnKeyInHeader, InvalidDsnValue (dsn present, no string).
C6_ParseErrorOrder ==
    \A r \in reqs :
        Handled(r) =>
            LET b == body[r]
            IN  /\ b = <<>> => err[r] = "EmptyBody"
                /\ (b # <<>> /\ ~HasNewline(b)) => err[r] = "InvalidNumberOfLines"
                /\ (HasNewline(b) /\ ~HeaderParses(b)) => err[r] = "InvalidHeaderJson"
                /\ (HeaderParses(b) /\ ~JsonHas(HeaderLine(b), "dsn")) =>
                      err[r] = "MissingDsnKeyInHeader"
                /\ (/\ HeaderParses(b)
                    /\ JsonHas(HeaderLine(b), "dsn")
                    /\ JsonGet(HeaderLine(b), "dsn").k # "str") =>
                      err[r] = "InvalidDsnValue"

\* a body without newline whose single line is not JSON at all
C6_Witness ==
    \E r \in reqs :
        /\ Handled(r)
        /\ body[r] # <<>>
        /\ ~HasNewline(body[r])
        /\ ~JsonValid(body[r])
        /\ err[r] = "InvalidNumberOfLines"

\* C7: a body whose newline-terminated header line is a JSON value without a
\* dsn field fails with MissingDsnKeyInHeader and is answered 400 with body
\* "The dsn key is missing from the header", whatever follows the header.
C7_MissingDsn ==
    \A r \in reqs :
        (/\ Handled(r)
         /\ HeaderParses(body[r])
         /\ ~JsonHas(HeaderLine(body[r]), "dsn")) =>
            /\ pc[r] = "Done"
            /\ err[r] = "MissingDsnKeyInHeader"
            /\ resp[r] = [status |-> 400,
                          body |-> "The dsn key is missing from the header"]
            /\ sent[r] = <<>>

C7_Witness ==
    \E r \in reqs :
        /\ Handled(r)
        /\ HeaderParses(body[r])
        /\ ~JsonHas(HeaderLine(body[r]), "dsn")
        /\ Len(HeaderLine(body[r])) > 2
        /\ body[r][Len(body[r])] = RAW
        /\ err[r] = "MissingDsnKeyInHeader"

\* the text each rejection kind is answered with
C8_Texts(kind) ==
    CASE kind = "EmptyBody" -> {"Empty request body"}
      [] kind = "InvalidNumberOfLines" ->
            {"Invalid number of lines in request body. Must have at least 2 lines (header and at least one item)."}
      [] kind = "InvalidHeaderJson" ->
            {"Failed to parse header json : " \o d :
                d \in {InvalidUtf8Detail, JsonSyntaxDetail}}
      [] kind = "MissingDsnKeyInHeader" -> {"The dsn key is missing from the header"}
      [] kind = "InvalidDsnValue" -> {"Failed to parse dsn value"}
      [] kind = "InvalidProjectId" -> {"Unauthorized project ID"}
      [] kind = "InvalidHost" -> {InvalidHostText}

RejectionKinds == BodyErrorKinds \cup {"InvalidHost"}

\* C8: every parse or gate failure is answered with status 400 and the
\* Display text of its kind; no two kinds are answered with the same text;
\* 200 is never the answer to a request that failed one of the checks.
C8_UniformRejection ==
    /\ \A r \in reqs :
          (Handled(r) /\ err[r] \in RejectionKinds) =>
              /\ pc[r] = "Done"
              /\ resp[r].status = 400
              /\ resp[r].body \in C8_Texts(err[r])
    /\ \A r \in reqs : resp[r].status = 200 => PassesGates(body[r])
    /\ \A k1, k2 \in RejectionKinds :
          \A d1, d2 \in {InvalidUtf8Detail, JsonSyntaxDetail} :
              k1 # k2 => error_response(k1, d1).body # error_response(k2, d2).body

C8_Witness ==
    \E r \in reqs :
        /\ pc[r] = "Done"
        /\ err[r] = "InvalidHeaderJson"
        /\ resp[r].status = 400
        /\ resp[r].body = "Failed to parse header json : Header contains invalid UTF-8"

\* C9: whenever the transport delivers a response, whatever its status,
\* forward returns Ok and the caller gets 200; the caller gets a server error
\* only when the request passed the gates and building or sending the
\* outbound request failed, and it gets one whenever sending failed.
C9_ForwardOutcome ==
    \A r \in reqs :
        /\ upstream[r].kind = "response" =>
              /\ resp[r].status = 200
              /\ err[r] = ""
        /\ upstream[r].kind = "error" =>
              /\ resp[r].status = 500
              /\ err[r] = "ForwardError"
        /\ resp[r].status >= 500 =>
              /\ PassesGates(body[r])
              /\ \/ upstream[r].kind = "error"
                 \/ upstream[r] = NoDelivery /\ sent[r] = <<>>

C9_Witness ==
    \E r \in reqs :
        /\ pc[r] = "Done"
        /\ upstream[r] = [kind |-> "response", status |-> 500]
        /\ resp[r].status = 200

\* the url the dsn string of the header names
C10_Url(s) ==
    s[1] \o "://" \o s[5]
        \o (IF Len(s) = 9 THEN ":" \o s[7] ELSE "")
        \o "/api/" \o s[Len(s)] \o "/envelope/?sentry_key=" \o s[3]

\* C10: every outbound request is a POST with Content-type
\* application/x-sentry-envelope to scheme://host[:port]/api/project_id/
\* envelope/?sentry_key=public_key, the components being those of the dsn
\* string of the header; http://public@hostA/5 gives
\* http://hostA/api/5/envelope/?sentry_key=public.
C10_Destination ==
    \A r \in reqs :
        \A i \in 1 .. Len(sent[r]) :
            /\ sent[r][i].method = "POST"
            /\ sent[r][i].content_type = "application/x-sentry-envelope"
            /\ sent[r][i].uri = C10_Url(DsnParts(body[r]))
            /\ DsnParts(body[r]) = <<"http", "://", "public", "@", "hostA", "/", "5">> =>
                  sent[r][i].uri = "http://hostA/api/5/envelope/?sentry_key=public"

C10_Witness ==
    \E r \in reqs :
        /\ Len(sent[r]) = 1
        /\ sent[r][1].uri = "https://hostB:8080/api/6/envelope/?sentry_key=public"

\* C11: with two requests in flight, one of whose forwards may never
\* complete, every request is handled (answered at once when it is rejected,
\* or brought to its send), and the request whose own forward completes gets
\* its response, 200, 400 or a server error, whatever the stalled one does;
\* no step of one request changes anything of the other.
C11_Independence ==
    /\ \A r \in ConcRequests : <>(pc[r] # "Idle")
    /\ <>(pc[LiveRequest] = "Done" /\ resp[LiveRequest].status \in {200, 400, 500})
    /\ [][\A r \in ConcRequests :
            pc'[r] # pc[r] =>
                \A q \in ConcRequests \ {r} :
                    /\ pc'[q] = pc[q] /\ body'[q] = body[q] /\ env'[q] = env[q]
                    /\ resp'[q] = resp[q] /\ sent'[q] = sent[q]
                    /\ upstream'[q] = upstream[q]]_vars

\* the live request was forwarded and answered while the other one's send
\* is still outstanding
C11_Witness ==
    /\ reqs = ConcRequests
    /\ pc[StalledRequest] = "Forwarding"
    /\ pc[LiveRequest] = "Done"
    /\ resp[LiveRequest].status = 200
    /\ upstream[LiveRequest].kind = "response"

\* C12 as stated: every envelope try_new_from_body returns has a raw_body
\* that is not empty and holds at least one byte after its first newline; a
\* valid header line followed by a single newline and nothing else is not
\* accepted.
C12_EnvelopeHasItem ==
    \A r \in reqs :
        (Handled(r) /\ env[r] # NoEnv) =>
            /\ env[r].raw_body # <<>>
            /\ HasNewline(env[r].raw_body)
            /\ Len(env[r].raw_body) > FirstNewline(env[r].raw_body)

\* the descriptors that differ from d in scheme, public key or port only
C13_Variants(d) ==
    {[d EXCEPT !.scheme = s, !.public_key = k, !.port = p] :
        s \in Schemes, k \in PublicKeys \cup {"other"}, p \in Ports \cup {"443"}}

\* C13: the host gate decides on the descriptor's host string alone: it
\* lets an envelope through exactly when some configured Host equals the host
\* of its dsn; descriptors that differ only in scheme, public key or port get
\* the same decision; an envelope naming an allowed host and project id is
\* forwarded to the port its dsn names.
C13_HostAlone ==
    \A r \in reqs :
        (/\ Handled(r)
         /\ Accepted(body[r])
         /\ InList(ProjectIdOf(body[r]), config.project_ids)) =>
            /\ err[r] = "InvalidHost" <=> ~InList(HostOf(body[r]), config.remote_hosts)
            /\ dsn_host_is_valid(env[r], config.remote_hosts)
                  <=> InList(HostOf(body[r]), config.remote_hosts)
            /\ \A d \in C13_Variants(env[r].dsn) :
                  dsn_host_is_valid([env[r] EXCEPT !.dsn = d], config.remote_hosts)
                      = dsn_host_is_valid(env[r], config.remote_hosts)
            /\ (InList(HostOf(body[r]), config.remote_hosts) /\ Len(sent[r]) = 1) =>
                  sent[r][1].uri =
                      envelope_api_url(env[r].dsn) \o "?sentry_key=" \o DsnParts(body[r])[3]
            /\ (/\ InList(HostOf(body[r]), config.remote_hosts)
                /\ Len(DsnParts(body[r])) = 9
                /\ pc[r] = "Forwarding") =>
                  /\ Len(sent[r]) = 1
                  /\ env[r].dsn.port = DsnParts(body[r])[7]

\* a dsn naming the allowed host hostA with port 8080 is forwarded there
C13_Witness ==
    \E r \in reqs :
        /\ config.remote_hosts = <<"hostA">>
        /\ Len(sent[r]) = 1
        /\ sent[r][1].uri = "https://hostA:8080/api/5/envelope/?sentry_key=public"

====
